---------------------------- MODULE Spec2Model ----------------------------
(***************************************************************************)
(* A model of tetra's 2D camera (src/graphics/camera.rs): the public       *)
(* fields position, rotation, zoom, viewport_width, viewport_height, the   *)
(* cached matrix, and the operations new, set_viewport_size, update,       *)
(* as_matrix, project and unproject.                                       *)
(*                                                                         *)
(* Numbers.  The code computes in f32.  The model computes exactly: a      *)
(* number is a fraction <<n, d>> in lowest terms with d >= 0, where        *)
(* d = 0 holds the three IEEE special values +inf = <<1, 0>>,              *)
(* -inf = <<-1, 0>> and NaN = <<0, 0>> that a division by zero produces.   *)
(* Rounding and the sign of zero are not modelled.  rotation is held as a  *)
(* number q of quarter turns (the angle q * pi/2), for which cos and sin   *)
(* are exactly 0, 1 or -1.                                                 *)
(*                                                                         *)
(* Vec2, Vec3 and Mat4 come from crate::math, which re-exports the vek     *)
(* library; camera.rs only calls them.  They are modelled by what vek      *)
(* computes: row-by-column products, in-place transforms that multiply on  *)
(* the left, and an inverse formed as the transposed cofactors times       *)
(* 1/det with no test for a zero determinant.                              *)
(***************************************************************************)
EXTENDS Integers, Sequences, FiniteSets, TLC

VARIABLES cams, built, last

vars == <<cams, built, last>>

----------------------------------------------------------------------------
(* f32 arithmetic, exact *)

Abs(n) == IF n < 0 THEN -n ELSE n

Sgn(n) == IF n < 0 THEN -1 ELSE IF n > 0 THEN 1 ELSE 0

RECURSIVE GCD(_, _)
GCD(a, b) == IF b = 0 THEN a ELSE GCD(b, a % b)

\* The number n/d in lowest terms; n/0 is +inf, -inf or NaN by the sign of n.
Frac(n, d) ==
    IF d = 0 THEN <<Sgn(n), 0>>
    ELSE LET g == GCD(Abs(n), Abs(d))
             s == IF d < 0 THEN -1 ELSE 1
         IN  <<(s * n) \div g, (s * d) \div g>>

F(n) == <<n, 1>>

NaN == <<0, 0>>

IsFinite(a) == a[2] # 0

\* Two infinities add to themselves when equal and to NaN otherwise; whole
\* numbers need no reduction.
FAdd(a, b) ==
    IF a[2] = 1 /\ b[2] = 1 THEN <<a[1] + b[1], 1>>
    ELSE IF a[2] = 0 /\ b[2] = 0 THEN (IF a = b THEN a ELSE NaN)
    ELSE Frac(a[1] * b[2] + b[1] * a[2], a[2] * b[2])

FNeg(a) == <<-a[1], a[2]>>

FSub(a, b) == FAdd(a, FNeg(b))

FMul(a, b) ==
    IF a[2] = 1 /\ b[2] = 1 THEN <<a[1] * b[1], 1>>
    ELSE Frac(a[1] * b[1], a[2] * b[2])

\* 1.0 / a
FRecip(a) == IF a[1] < 0 THEN <<-a[2], -a[1]>> ELSE <<a[2], a[1]>>

FDiv(a, b) == FMul(a, FRecip(b))

\* f32::cos and f32::sin at q quarter turns
Cos(q) == F(<<1, 0, -1, 0>>[(q % 4) + 1])

Sin(q) == F(<<0, 1, 0, -1>>[(q % 4) + 1])

----------------------------------------------------------------------------
(* Vec2, Vec3 and Mat4 of crate::math.  A Mat4 is the tuple of its four    *)
(* rows; m[i][j] is row i, column j.                                       *)

Vec2_zero == <<F(0), F(0)>>

Vec2_neg(v) == <<FNeg(v[1]), FNeg(v[2])>>

\* Vec3::from_point_2d: the point in homogeneous 2D co-ordinates
Vec3_from_point_2d(p) == <<p[1], p[2], F(1)>>

xy(v) == <<v[1], v[2]>>

Mat4_identity ==
    << <<F(1), F(0), F(0), F(0)>>,
       <<F(0), F(1), F(0), F(0)>>,
       <<F(0), F(0), F(1), F(0)>>,
       <<F(0), F(0), F(0), F(1)>> >>

translation_2d(v) ==
    << <<F(1), F(0), F(0), v[1]>>,
       <<F(0), F(1), F(0), v[2]>>,
       <<F(0), F(0), F(1), F(0)>>,
       <<F(0), F(0), F(0), F(1)>> >>

rotation_z(q) ==
    << <<Cos(q), FNeg(Sin(q)), F(0), F(0)>>,
       <<Sin(q), Cos(q),       F(0), F(0)>>,
       <<F(0),   F(0),         F(1), F(0)>>,
       <<F(0),   F(0),         F(0), F(1)>> >>

scaling_3d(v) ==
    << <<v[1], F(0), F(0), F(0)>>,
       <<F(0), v[2], F(0), F(0)>>,
       <<F(0), F(0), v[3], F(0)>>,
       <<F(0), F(0), F(0), F(1)>> >>

Dot4(r, c) ==
    FAdd(FAdd(FAdd(FMul(r[1], c[1]), FMul(r[2], c[2])), FMul(r[3], c[3])),
         FMul(r[4], c[4]))

Col(m, j) == <<m[1][j], m[2][j], m[3][j], m[4][j]>>

\* the matrix product a * b
Mat4_mul(a, b) ==
    LET c1 == Col(b, 1)
        c2 == Col(b, 2)
        c3 == Col(b, 3)
        c4 == Col(b, 4)
        Row(r) == <<Dot4(r, c1), Dot4(r, c2), Dot4(r, c3), Dot4(r, c4)>>
    IN  <<Row(a[1]), Row(a[2]), Row(a[3]), Row(a[4])>>

\* the in-place transforms: each multiplies the new transform on the left
rotate_z(m, q) == Mat4_mul(rotation_z(q), m)

scale_3d(m, v) == Mat4_mul(scaling_3d(v), m)

translate_2d(m, v) == Mat4_mul(translation_2d(v), m)

\* Mat4::mul_point: m * (x, y, z, 1), the first three co-ordinates
mul_point(m, v) ==
    LET p == <<v[1], v[2], v[3], F(1)>>
    IN  <<Dot4(m[1], p), Dot4(m[2], p), Dot4(m[3], p)>>

Det3(a, b, c, d, e, f, g, h, i) ==
    FAdd(FSub(FMul(a, FSub(FMul(e, i), FMul(f, h))),
              FMul(b, FSub(FMul(d, i), FMul(f, g)))),
         FMul(c, FSub(FMul(d, h), FMul(e, g))))

Others(k) == IF k = 1 THEN <<2, 3, 4>> ELSE IF k = 2 THEN <<1, 3, 4>>
             ELSE IF k = 3 THEN <<1, 2, 4>> ELSE <<1, 2, 3>>

\* the determinant of m without row i and column j
Minor(m, i, j) ==
    LET r == Others(i)
        c == Others(j)
    IN  Det3(m[r[1]][c[1]], m[r[1]][c[2]], m[r[1]][c[3]],
             m[r[2]][c[1]], m[r[2]][c[2]], m[r[2]][c[3]],
             m[r[3]][c[1]], m[r[3]][c[2]], m[r[3]][c[3]])

Cofactor(m, i, j) ==
    IF (i + j) % 2 = 0 THEN Minor(m, i, j) ELSE FNeg(Minor(m, i, j))

determinant(m) ==
    FAdd(FAdd(FAdd(FMul(m[1][1], Cofactor(m, 1, 1)),
                   FMul(m[1][2], Cofactor(m, 1, 2))),
              FMul(m[1][3], Cofactor(m, 1, 3))),
         FMul(m[1][4], Cofactor(m, 1, 4)))

\* Mat4::inverted: the transposed cofactors times 1/det.  A zero
\* determinant is not tested for: 1/det is then +inf and every entry of
\* the result is +inf, -inf or NaN.
inverted(m) ==
    LET inv_det == FRecip(determinant(m))
        Row(i) == <<FMul(inv_det, Cofactor(m, 1, i)), FMul(inv_det, Cofactor(m, 2, i)),
                    FMul(inv_det, Cofactor(m, 3, i)), FMul(inv_det, Cofactor(m, 4, i))>>
    IN  <<Row(1), Row(2), Row(3), Row(4)>>

----------------------------------------------------------------------------
(* Camera *)

\* new without the centring translation
new_identity(viewport_width, viewport_height) ==
    [position        |-> Vec2_zero,
     rotation        |-> 0,
     zoom            |-> F(1),
     viewport_width  |-> viewport_width,
     viewport_height |-> viewport_height,
     matrix          |-> Mat4_identity]

\* Camera::new
new(viewport_width, viewport_height) ==
    [position        |-> Vec2_zero,
     rotation        |-> 0,
     zoom            |-> F(1),
     viewport_width  |-> viewport_width,
     viewport_height |-> viewport_height,
     matrix          |-> translation_2d(<<FDiv(viewport_width, F(2)),
                                          FDiv(viewport_height, F(2))>>)]

\* Camera::set_viewport_size
set_viewport_size(self, width, height) ==
    [self EXCEPT !.viewport_width = width, !.viewport_height = height]

\* update with the translation to the viewport centre applied before the scale
update_centre_before_scale(self) ==
    LET m1 == translation_2d(Vec2_neg(self.position))
        m2 == rotate_z(m1, self.rotation)
        m3 == translate_2d(m2, <<FDiv(self.viewport_width, F(2)),
                                 FDiv(self.viewport_height, F(2))>>)
        m4 == scale_3d(m3, <<self.zoom, self.zoom, F(1)>>)
    IN  [self EXCEPT !.matrix = m4]

\* update scaling the x axis only
update_scale_x_only(self) ==
    LET m1 == translation_2d(Vec2_neg(self.position))
        m2 == rotate_z(m1, self.rotation)
        m3 == scale_3d(m2, <<self.zoom, F(1), F(1)>>)
        m4 == translate_2d(m3, <<FDiv(self.viewport_width, F(2)),
                                 FDiv(self.viewport_height, F(2))>>)
    IN  [self EXCEPT !.matrix = m4]

\* update that transforms the matrix in place instead of starting afresh
update_accumulate(self) ==
    LET m1 == translate_2d(self.matrix, Vec2_neg(self.position))
        m2 == rotate_z(m1, self.rotation)
        m3 == scale_3d(m2, <<self.zoom, self.zoom, F(1)>>)
        m4 == translate_2d(m3, <<FDiv(self.viewport_width, F(2)),
                                 FDiv(self.viewport_height, F(2))>>)
    IN  [self EXCEPT !.matrix = m4]

\* Camera::update
update(self) ==
    LET m1 == translation_2d(Vec2_neg(self.position))
        m2 == rotate_z(m1, self.rotation)
        m3 == scale_3d(m2, <<self.zoom, self.zoom, F(1)>>)
        m4 == translate_2d(m3, <<FDiv(self.viewport_width, F(2)),
                                 FDiv(self.viewport_height, F(2))>>)
    IN  [self EXCEPT !.matrix = m4]

\* Camera::as_matrix
as_matrix(self) == self.matrix

\* project without the inversion
project_no_inverse(self, point) ==
    xy(mul_point(as_matrix(self), Vec3_from_point_2d(point)))

\* Camera::project
project(self, point) ==
    xy(mul_point(inverted(as_matrix(self)), Vec3_from_point_2d(point)))

\* Camera::unproject
unproject(self, point) ==
    xy(mul_point(as_matrix(self), Vec3_from_point_2d(point)))

----------------------------------------------------------------------------
(* The state.  cams[i] is camera i, a Camera value.  built[i] holds the    *)
(* values the five public fields of camera i had when its cached matrix    *)
(* was last assigned (by new or by update).  last is the most recent call: *)
(* its name ("assign" for a write to one of the public fields), the camera *)
(* it was made on, the point or size passed, and for project and unproject *)
(* the point returned.                                                     *)

Fields(self) ==
    [position        |-> self.position,
     rotation        |-> self.rotation,
     zoom            |-> self.zoom,
     viewport_width  |-> self.viewport_width,
     viewport_height |-> self.viewport_height]

NoPoint == <<>>

Call(op, i, arg) == [op |-> op, cam |-> i, arg |-> arg, ret |-> NoPoint]

\* Every camera is constructed by new with a viewport size of V.
InitOver(ids, V) ==
    /\ cams \in [ids -> {new(v[1], v[2]) : v \in V}]
    /\ built = [i \in ids |-> Fields(cams[i])]
    /\ \E i \in ids :
          /\ \A j \in ids : j <= i
          /\ last = Call("new", i, <<cams[i].viewport_width, cams[i].viewport_height>>)

New(i, viewport_width, viewport_height) ==
    /\ cams' = [cams EXCEPT ![i] = new(viewport_width, viewport_height)]
    /\ built' = [built EXCEPT ![i] = Fields(cams'[i])]
    /\ last' = Call("new", i, <<viewport_width, viewport_height>>)

\* an assignment to position that also recalculates the matrix
AssignPosition_recalculate(i, p) ==
    /\ cams' = [cams EXCEPT ![i] = update([cams[i] EXCEPT !.position = p])]
    /\ last' = Call("assign", i, NoPoint)
    /\ UNCHANGED built

\* camera.position = p
AssignPosition(i, p) ==
    /\ cams' = [cams EXCEPT ![i].position = p]
    /\ last' = Call("assign", i, NoPoint)
    /\ UNCHANGED built

\* camera.rotation = q
AssignRotation(i, q) ==
    /\ cams' = [cams EXCEPT ![i].rotation = q]
    /\ last' = Call("assign", i, NoPoint)
    /\ UNCHANGED built

\* camera.zoom = z
AssignZoom(i, z) ==
    /\ cams' = [cams EXCEPT ![i].zoom = z]
    /\ last' = Call("assign", i, NoPoint)
    /\ UNCHANGED built

\* set_viewport_size that also recalculates the matrix
SetViewportSize_recalculate(i, width, height) ==
    /\ cams' = [cams EXCEPT ![i] = update(set_viewport_size(cams[i], width, height))]
    /\ last' = Call("set_viewport_size", i, <<width, height>>)
    /\ UNCHANGED built

SetViewportSize(i, width, height) ==
    /\ cams' = [cams EXCEPT ![i] = set_viewport_size(cams[i], width, height)]
    /\ last' = Call("set_viewport_size", i, <<width, height>>)
    /\ UNCHANGED built

Update(i) ==
    /\ cams' = [cams EXCEPT ![i] = update(cams[i])]
    /\ built' = [built EXCEPT ![i] = Fields(cams[i])]
    /\ last' = Call("update", i, NoPoint)

Project(i, p) ==
    /\ last' = [op |-> "project", cam |-> i, arg |-> p, ret |-> project(cams[i], p)]
    /\ UNCHANGED <<cams, built>>

Unproject(i, p) ==
    /\ last' = [op |-> "unproject", cam |-> i, arg |-> p, ret |-> unproject(cams[i], p)]
    /\ UNCHANGED <<cams, built>>

Pt(x, y) == <<F(x), F(y)>>

----------------------------------------------------------------------------
(* Spec: one camera, every operation. *)

MaxQuarter == 1

MaxZoom == 2

Positions == {Pt(0, 0), Pt(1, -2)}

Rotations == 0 .. MaxQuarter

Zooms == {F(z) : z \in -1 .. MaxZoom}

Viewports == {Pt(4, 2), Pt(3, 5)}

CallPoints == {Pt(0, 0), Pt(2, -1)}

\* the points the properties are stated for
Points == {Pt(0, 0), Pt(1, 0), Pt(0, 1), Pt(-3, 2)}

Init == InitOver({1}, Viewports)

Next ==
    \/ \E i \in DOMAIN cams, v \in Viewports : New(i, v[1], v[2])
    \/ \E i \in DOMAIN cams, p \in Positions : AssignPosition(i, p)
    \/ \E i \in DOMAIN cams, q \in Rotations : AssignRotation(i, q)
    \/ \E i \in DOMAIN cams, z \in Zooms : AssignZoom(i, z)
    \/ \E i \in DOMAIN cams, v \in Viewports : SetViewportSize(i, v[1], v[2])
    \/ \E i \in DOMAIN cams : Update(i)
    \/ \E i \in DOMAIN cams, p \in CallPoints : Project(i, p)
    \/ \E i \in DOMAIN cams, p \in CallPoints : Unproject(i, p)

Spec == Init /\ [][Next]_vars

----------------------------------------------------------------------------
(* ScenarioSpec: one camera with an 800 x 600 viewport. *)

ScenarioPositions == {Pt(0, 0), Pt(100, 0)}

ScenarioRotations == {0, 1}

ScenarioZooms == {F(1), F(2)}

ScenarioViewports == {Pt(800, 600)}

ScenarioPoints == {Pt(400, 300), Pt(0, 0), Pt(-400, -300)}

ScenarioInit == InitOver({1}, ScenarioViewports)

ScenarioNext ==
    \/ \E i \in DOMAIN cams, v \in ScenarioViewports : New(i, v[1], v[2])
    \/ \E i \in DOMAIN cams, p \in ScenarioPositions : AssignPosition(i, p)
    \/ \E i \in DOMAIN cams, q \in ScenarioRotations : AssignRotation(i, q)
    \/ \E i \in DOMAIN cams, z \in ScenarioZooms : AssignZoom(i, z)
    \/ \E i \in DOMAIN cams, v \in ScenarioViewports : SetViewportSize(i, v[1], v[2])
    \/ \E i \in DOMAIN cams : Update(i)
    \/ \E i \in DOMAIN cams, p \in ScenarioPoints : Project(i, p)
    \/ \E i \in DOMAIN cams, p \in ScenarioPoints : Unproject(i, p)

ScenarioSpec == ScenarioInit /\ [][ScenarioNext]_vars

----------------------------------------------------------------------------
(* PairSpec: two cameras, mutated and updated independently. *)

PairPositions == {Pt(0, 0), Pt(3, -1)}

PairRotations == {0, 1}

PairZooms == {F(1), F(2)}

PairViewports == {Pt(4, 2)}

PairInit == InitOver({1, 2}, PairViewports)

PairNext ==
    \/ \E i \in DOMAIN cams, v \in PairViewports : New(i, v[1], v[2])
    \/ \E i \in DOMAIN cams, p \in PairPositions : AssignPosition(i, p)
    \/ \E i \in DOMAIN cams, q \in PairRotations : AssignRotation(i, q)
    \/ \E i \in DOMAIN cams, z \in PairZooms : AssignZoom(i, z)
    \/ \E i \in DOMAIN cams, v \in PairViewports : SetViewportSize(i, v[1], v[2])
    \/ \E i \in DOMAIN cams : Update(i)

PairSpec == PairInit /\ [][PairNext]_vars

----------------------------------------------------------------------------
(* Properties *)

Half(a) == FDiv(a, F(2))

Centre(f) == <<Half(f.viewport_width), Half(f.viewport_height)>>

IsPositive(a) == a[1] > 0 /\ a[2] > 0

IsFinitePoint(p) == IsFinite(p[1]) /\ IsFinite(p[2])

\* The matrix T2 * S * R * T1 of the field values f, entry by entry.
Composed(f) ==
    LET c  == Cos(f.rotation)
        sn == Sin(f.rotation)
        z  == f.zoom
        px == f.position[1]
        py == f.position[2]
    IN  << <<FMul(z, c), FNeg(FMul(z, sn)), F(0),
             FSub(Half(f.viewport_width), FMul(z, FSub(FMul(c, px), FMul(sn, py))))>>,
           <<FMul(z, sn), FMul(z, c), F(0),
             FSub(Half(f.viewport_height), FMul(z, FAdd(FMul(sn, px), FMul(c, py))))>>,
           <<F(0), F(0), F(1), F(0)>>,
           <<F(0), F(0), F(0), F(1)>> >>

\* C1: whenever the cached matrix was last built (by new or by update) with
\* zoom > 0, project and unproject are inverse to each other on every point,
\* whatever the fields hold now; and a point returned by project or
\* unproject is taken back to the point passed by the other.
C1_RoundTrip ==
    \A i \in DOMAIN cams :
        IsPositive(built[i].zoom) =>
            /\ \A P \in Points :
                  /\ project(cams[i], unproject(cams[i], P)) = P
                  /\ unproject(cams[i], project(cams[i], P)) = P
            /\ (last.cam = i /\ last.op = "project") => unproject(cams[i], last.ret) = last.arg
            /\ (last.cam = i /\ last.op = "unproject") => project(cams[i], last.ret) = last.arg

\* project has returned from a matrix built with zoom 2, a quarter turn and
\* a position off the origin, the fields have since been changed, and
\* unproject takes the result back.
C1_Witness ==
    /\ last.op = "project"
    /\ built[1].zoom = F(2)
    /\ built[1].rotation = 1
    /\ built[1].position = Pt(1, -2)
    /\ cams[1].zoom = F(0)
    /\ last.ret # last.arg
    /\ unproject(cams[1], last.ret) = last.arg

\* C2: as_matrix() is the composition of the values the five fields had at
\* the most recent update() (at construction, if there was none), and a
\* write to position, rotation or zoom leaves it as it was.
C2_Staleness ==
    /\ [](\A i \in DOMAIN cams : as_matrix(cams[i]) = Composed(built[i]))
    /\ [][last'.op = "assign" =>
            \A i \in DOMAIN cams : as_matrix(cams'[i]) = as_matrix(cams[i])]_vars

\* position was written after the last update: the matrix is that of the old
\* position, not the one update would build now.
C2_Witness ==
    /\ last.op = "assign"
    /\ built[1].position = Pt(0, 0)
    /\ cams[1].position = Pt(1, -2)
    /\ built[1].rotation = 1
    /\ built[1].zoom = F(2)
    /\ as_matrix(cams[1]) = Composed(built[1])
    /\ as_matrix(cams[1]) # Composed(Fields(cams[1]))

\* C5: the matrix update() builds is T2 * S * R * T1, and it takes the world
\* point equal to position to the centre of the viewport.
C5_CompositionOrder ==
    \A i \in DOMAIN cams :
        (last.op = "update" /\ last.cam = i) =>
            LET self == cams[i]
                T1 == translation_2d(Vec2_neg(self.position))
                R  == rotation_z(self.rotation)
                S  == scaling_3d(<<self.zoom, self.zoom, F(1)>>)
                T2 == translation_2d(Centre(self))
            IN  /\ as_matrix(self) = Mat4_mul(T2, Mat4_mul(S, Mat4_mul(R, T1)))
                /\ xy(mul_point(as_matrix(self), Vec3_from_point_2d(self.position)))
                      = Centre(self)

\* update has run with a position off the origin, a quarter turn and zoom 2
C5_Witness ==
    /\ last.op = "update"
    /\ cams[1].position = Pt(1, -2)
    /\ cams[1].rotation = 1
    /\ cams[1].zoom = F(2)
    /\ cams[1].viewport_width = F(3)
    /\ unproject(cams[1], cams[1].position) = <<Frac(3, 2), Frac(5, 2)>>

\* C7: new(w, h) returns position (0,0), rotation 0, zoom 1, the viewport
\* size (w, h) and the translation by (w/2, h/2), which takes (0,0) to
\* (w/2, h/2) and is invertible.
C7_IdentityConstruction ==
    \A i \in DOMAIN cams :
        (last.op = "new" /\ last.cam = i) =>
            LET self == cams[i]
                half == <<Half(last.arg[1]), Half(last.arg[2])>>
            IN  /\ self.position = Pt(0, 0)
                /\ self.rotation = 0
                /\ self.zoom = F(1)
                /\ self.viewport_width = last.arg[1]
                /\ self.viewport_height = last.arg[2]
                /\ as_matrix(self) = translation_2d(half)
                /\ xy(mul_point(as_matrix(self), Vec3_from_point_2d(Pt(0, 0)))) = half
                /\ determinant(as_matrix(self)) = F(1)
                /\ \A P \in Points : project(self, unproject(self, P)) = P

\* a camera has just been constructed with a 3 x 5 viewport, and its matrix
\* takes the origin to (3/2, 5/2)
C7_Witness ==
    /\ last.op = "new"
    /\ last.arg = Pt(3, 5)
    /\ unproject(cams[1], Pt(0, 0)) = <<Frac(3, 2), Frac(5, 2)>>

\* C8 as stated: update() with zoom = 0 or zoom < 0 leaves a matrix that is
\* not invertible.
C8_DegenerateZoom_Original ==
    \A i \in DOMAIN cams :
        (last.op = "update" /\ last.cam = i /\ ~IsPositive(cams[i].zoom)) =>
            determinant(as_matrix(cams[i])) = F(0)

\* C8, amended: the determinant of the matrix update() builds is zoom * zoom.
\* With zoom = 0 it is 0: unproject takes every point to the centre of the
\* viewport and project returns no finite point.  With zoom < 0 it is
\* positive, and project and unproject are inverse to each other.
C8_DegenerateZoom ==
    \A i \in DOMAIN cams :
        (last.op = "update" /\ last.cam = i) =>
            LET self == cams[i]
            IN  /\ determinant(as_matrix(self)) = FMul(self.zoom, self.zoom)
                /\ self.zoom = F(0) =>
                      \A P \in Points :
                          /\ unproject(self, P) = Centre(self)
                          /\ ~IsFinitePoint(project(self, P))
                /\ self.zoom[1] < 0 =>
                      \A P \in Points :
                          /\ project(self, unproject(self, P)) = P
                          /\ unproject(self, project(self, P)) = P

\* update has run with zoom 0 and the matrix is singular
C8_Witness ==
    /\ last.op = "update"
    /\ cams[1].zoom = F(0)
    /\ cams[1].position = Pt(1, -2)
    /\ determinant(as_matrix(cams[1])) = F(0)
    /\ project(cams[1], Pt(1, 0)) = <<NaN, NaN>>

\* C9: set_viewport_size(width, height) stores width and height and leaves
\* position, rotation, zoom and the matrix as they were, so that project and
\* unproject return what they returned before; and no call other than new
\* and update changes the matrix.
C9_SetViewportSizeFrame ==
    /\ [][last'.op = "set_viewport_size" =>
            \A i \in DOMAIN cams :
                IF i = last'.cam
                THEN /\ cams'[i].viewport_width = last'.arg[1]
                     /\ cams'[i].viewport_height = last'.arg[2]
                     /\ cams'[i].position = cams[i].position
                     /\ cams'[i].rotation = cams[i].rotation
                     /\ cams'[i].zoom = cams[i].zoom
                     /\ as_matrix(cams'[i]) = as_matrix(cams[i])
                     /\ \A P \in CallPoints :
                           /\ project(cams'[i], P) = project(cams[i], P)
                           /\ unproject(cams'[i], P) = unproject(cams[i], P)
                ELSE cams'[i] = cams[i]]_vars
    /\ [][last'.op \notin {"update", "new"} =>
            \A i \in DOMAIN cams : as_matrix(cams'[i]) = as_matrix(cams[i])]_vars

\* set_viewport_size has changed the size of a camera whose matrix was built
\* for another size
C9_Witness ==
    /\ last.op = "set_viewport_size"
    /\ last.arg = Pt(3, 5)
    /\ cams[1].viewport_width = F(3)
    /\ built[1].viewport_width = F(4)
    /\ built[1].position = Pt(1, -2)
    /\ as_matrix(cams[1]) = Composed(built[1])

\* the matrix of camera i is the one update builds from its present fields
UpToDate(i) == built[i] = Fields(cams[i])

Scenario(f, position, zoom) ==
    /\ f.viewport_width = F(800)
    /\ f.viewport_height = F(600)
    /\ f.position = position
    /\ f.rotation = 0
    /\ f.zoom = zoom

\* C3: viewport 800 x 600, position (0,0), rotation 0, zoom 1, after
\* update(): unproject((400,300)) = (0,0), unproject((0,0)) = (-400,-300)
\* and project((-400,-300)) = (0,0).
C3_Scenario ==
    \A i \in DOMAIN cams :
        (last.op = "update" /\ last.cam = i /\ Scenario(cams[i], Pt(0, 0), F(1))) =>
            /\ unproject(cams[i], Pt(400, 300)) = Pt(0, 0)
            /\ unproject(cams[i], Pt(0, 0)) = Pt(-400, -300)
            /\ project(cams[i], Pt(-400, -300)) = Pt(0, 0)

\* C4: with rotation 0 and zoom 1, after update() unproject takes the centre
\* of the viewport to position; and with viewport 800 x 600, position
\* (100,0), rotation 0, zoom 2, after update() unproject((400,300)) = (100,0).
C4_CentreToPosition ==
    \A i \in DOMAIN cams :
        (last.op = "update" /\ last.cam = i) =>
            /\ (cams[i].rotation = 0 /\ cams[i].zoom = F(1)) =>
                  unproject(cams[i], Centre(cams[i])) = cams[i].position
            /\ Scenario(cams[i], Pt(100, 0), F(2)) =>
                  unproject(cams[i], Pt(400, 300)) = Pt(100, 0)

\* the square of the distance between two points
Dist2(a, b) ==
    LET dx == FSub(a[1], b[1])
        dy == FSub(a[2], b[2])
    IN  FAdd(FMul(dx, dx), FMul(dy, dy))

PairPoints == {Pt(0, 0), Pt(2, 0), Pt(1, 3)}

\* C6: with rotation 0 and position (0,0), of two up-to-date cameras with
\* zoom z > 0 and zoom 2z, the one with zoom 2z unprojects any two points to
\* points half as far apart (a quarter of the squared distance).
C6_ZoomScaling ==
    \A i, j \in DOMAIN cams :
        ( /\ UpToDate(i) /\ UpToDate(j)
          /\ last.op = "update"
          /\ cams[i].rotation = 0 /\ cams[j].rotation = 0
          /\ cams[i].position = Pt(0, 0) /\ cams[j].position = Pt(0, 0)
          /\ IsPositive(cams[i].zoom)
          /\ cams[j].zoom = FMul(F(2), cams[i].zoom) ) =>
            \A A, B \in PairPoints :
                FMul(F(4), Dist2(unproject(cams[j], A), unproject(cams[j], B)))
                    = Dist2(unproject(cams[i], A), unproject(cams[i], B))

\* C10: update() builds the same matrix for any two cameras with the same
\* five fields, whatever matrix either held before; it changes nothing but
\* the matrix of the camera it is called on; and a second update() with no
\* write in between changes nothing.
C10_UpdateDeterministic ==
    /\ [](\A i, j \in DOMAIN cams :
            (UpToDate(i) /\ UpToDate(j) /\ Fields(cams[i]) = Fields(cams[j]))
                => as_matrix(cams[i]) = as_matrix(cams[j]))
    /\ [][last'.op = "update" =>
            \A i \in DOMAIN cams :
                /\ Fields(cams'[i]) = Fields(cams[i])
                /\ i # last'.cam => cams'[i] = cams[i]]_vars
    /\ [][(last.op = "update" /\ last'.op = "update" /\ last'.cam = last.cam)
            => cams' = cams]_vars

\* update has run on the second of two cameras with the same fields, off the
\* defaults, and the two matrices agree
C10_Witness ==
    /\ last.op = "update"
    /\ last.cam = 2
    /\ UpToDate(1) /\ UpToDate(2)
    /\ Fields(cams[1]) = Fields(cams[2])
    /\ cams[1].position = Pt(3, -1)
    /\ cams[1].rotation = 1
    /\ cams[1].zoom = F(2)
    /\ as_matrix(cams[1]) = as_matrix(cams[2])
    /\ as_matrix(cams[1]) # as_matrix(new(F(4), F(2)))

=============================================================================
